---------------------------- MODULE Spec2Model ----------------------------
(***************************************************************************)
(* Model of the analyzer routing / response-contract layer of the          *)
(* sentiment dashboard backend:                                            *)
(*   app/services/content_moderator.py   (Moderation Filter)               *)
(*   app/services/analyzer_contract.py   (Response Contract)               *)
(*   app/services/openai_analyzer.py     (Remote-Model Scorer + cache)     *)
(*   app/services/sentiment_analyzer.py  (Analyzer Router)                 *)
(*                                                                         *)
(* Conventions.                                                            *)
(*  - A text is a sequence of one-character strings.                       *)
(*  - A float is an integer number of thousandths (0.25 is 250); every     *)
(*    number the model feeds in has at most three decimals.                *)
(*  - Python's None is the string NoneVal.                                 *)
(*  - A value whose Python type is not fixed by the code (what the remote  *)
(*    model's JSON holds, and the emotions / reasoning fields it flows     *)
(*    into) is a tagged record [type |-> ..., val |-> ...].                *)
(***************************************************************************)
EXTENDS Integers, Sequences, FiniteSets, TLC

----------------------------------------------------------------------------
(* Characters and strings                                                  *)

UpperChars == <<"A","B","C","D","E","F","G","H","I","J","K","L","M",
                "N","O","P","Q","R","S","T","U","V","W","X","Y","Z">>

LowerChars == <<"a","b","c","d","e","f","g","h","i","j","k","l","m",
                "n","o","p","q","r","s","t","u","v","w","x","y","z">>

Digits == {"0","1","2","3","4","5","6","7","8","9"}

\* str.lower() on one character
LowerChar(c) ==
    IF \E i \in 1..26 : UpperChars[i] = c
    THEN LowerChars[CHOOSE i \in 1..26 : UpperChars[i] = c]
    ELSE c

\* str.lower()
LowerText(t) == [i \in 1..Len(t) |-> LowerChar(t[i])]

\* the regex class \s
IsSpace(c) == c \in {" ", "\t", "\n"}

\* the regex class \w
IsWordChar(c) ==
    \/ \E i \in 1..26 : c = UpperChars[i] \/ c = LowerChars[i]
    \/ c \in Digits
    \/ c = "_"

RECURSIVE LStrip(_)
LStrip(t) == IF t # <<>> /\ IsSpace(Head(t)) THEN LStrip(Tail(t)) ELSE t

RECURSIVE RStrip(_)
RStrip(t) ==
    IF t # <<>> /\ IsSpace(t[Len(t)]) THEN RStrip(SubSeq(t, 1, Len(t) - 1)) ELSE t

\* str.strip()
Strip(t) == RStrip(LStrip(t))

NoneVal == "<None>"

\* Python values of the types the model needs
PyStr(s)  == [type |-> "str",  val |-> s]
PyList(l) == [type |-> "list", val |-> l]
PyNum(n)  == [type |-> "num",  val |-> n]
PyNull    == [type |-> "null", val |-> NoneVal]

----------------------------------------------------------------------------
(* Texts of the model                                                      *)

TxtLove    == <<"I", " ", "l", "o", "v", "e", " ", "t", "h", "i", "s", "!">>
TxtLoveVar == <<" ", " ", "i", " ", "l", "o", "v", "e", " ", "t", "h", "i", "s", "!", " ", " ">>
TxtHate    == <<"I", " ", "h", "a", "t", "e", " ", "y", "o", "u">>
TxtBlank   == <<" ", " ">>
TxtEmpty   == <<>>

Texts == {TxtLove, TxtLoveVar, TxtHate, TxtBlank}

\* and the empty text, for the calls made one at a time
SeqTexts == Texts \cup {TxtEmpty}

\* texts for the pattern boosts of the blended scorer
\* "Not bad"
TxtNotBad == <<"N", "o", "t", " ", "b", "a", "d">>
\* "This slaps, bussin"
TxtSlapsBussin ==
    <<"T", "h", "i", "s", " ", "s", "l", "a", "p",
      "s", ",", " ", "b", "u", "s", "s", "i", "n">>
\* "thanks for nothing"
TxtThanks ==
    <<"t", "h", "a", "n", "k", "s", " ", "f", "o",
      "r", " ", "n", "o", "t", "h", "i", "n", "g">>
\* "fire sale"
TxtFireSale == <<"f", "i", "r", "e", " ", "s", "a", "l", "e">>
\* "oh great, a delay"
TxtOhGreat ==
    <<"o", "h", " ", "g", "r", "e", "a", "t",
      ",", " ", "a", " ", "d", "e", "l", "a", "y">>
\* "it's fine, not bad"
TxtFineNotBad ==
    <<"i", "t", "'", "s", " ", "f", "i", "n", "e",
      ",", " ", "n", "o", "t", " ", "b", "a", "d">>
\* "just what I needed"
TxtJustWhat ==
    <<"j", "u", "s", "t", " ", "w", "h", "a", "t",
      " ", "I", " ", "n", "e", "e", "d", "e", "d">>

ScorerTexts ==
    {TxtLove, TxtNotBad, TxtSlapsBussin, TxtThanks, TxtFireSale, TxtOhGreat, TxtFineNotBad,
     TxtJustWhat}

\* the "harmful" sample of tests/conftest.py: "I want to hurt someone"
TxtHurtSomeone ==
    <<"I", " ", "w", "a", "n", "t", " ", "t", "o", " ", "h", "u", "r", "t", " ",
      "s", "o", "m", "e", "o", "n", "e">>

\* harmful phrases, plain and with a letter written as its substitute
TxtKillYourself  == <<"k", "i", "l", "l", " ", "y", "o", "u", "r", "s", "e", "l", "f">>
TxtKStarYourself == <<"k", "*", "l", "l", " ", "y", "o", "u", "r", "s", "e", "l", "f">>
TxtK1llYourself  == <<"k", "1", "l", "l", " ", "y", "o", "u", "r", "s", "e", "l", "f">>
TxtKillY0urself  == <<"k", "i", "l", "l", " ", "y", "0", "u", "r", "s", "e", "l", "f">>
TxtHarmYourself  == <<"h", "a", "r", "m", " ", "y", "o", "u", "r", "s", "e", "l", "f">>
TxtHAtrmYourself == <<"h", "@", "r", "m", " ", "y", "o", "u", "r", "s", "e", "l", "f">>

\* the texts in which a substitute stands for a letter of a harmful phrase
CensoredTexts == {TxtKStarYourself, TxtK1llYourself, TxtKillY0urself, TxtHAtrmYourself}

ModerationTexts ==
    {TxtHurtSomeone, TxtKillYourself, TxtHarmYourself} \cup CensoredTexts

----------------------------------------------------------------------------
(* Moderation Filter: content_moderator.py                                 *)

(* The word-sequence patterns of harmful_patterns, in source order.  Each   *)
(* pattern is a set of shapes; a shape is a sequence of sets of words and   *)
(* matches that many consecutive whole words (every pattern is anchored by  *)
(* \b on both sides and joins its words with \s+).  The patterns that need  *)
(* character classes inside a word or words that no text of the model       *)
(* contains (the slur lists, "suicide please", "jump off", ...) are left    *)
(* out: none of them matches a text of Texts or ModerationTexts.            *)
harmful_patterns ==
    LET
        W_kill     == <<"k", "i", "l", "l">>
        W_k1ll     == <<"k", "1", "l", "l">>
        W_kStarll  == <<"k", "*", "l", "l">>
        W_yourself == <<"y", "o", "u", "r", "s", "e", "l", "f">>
        W_self     == <<"s", "e", "l", "f">>
        W_kys      == <<"k", "y", "s">>
        W_hurt     == <<"h", "u", "r", "t">>
        W_harm     == <<"h", "a", "r", "m">>
        W_urself   == <<"u", "r", "s", "e", "l", "f">>
        W_yurself  == <<"y", "u", "r", "s", "e", "l", "f">>
        W_yorself  == <<"y", "o", "r", "s", "e", "l", "f">>
        W_yrself   == <<"y", "r", "s", "e", "l", "f">>
        W_you      == <<"y", "o", "u">>
        W_i        == <<"i">>
        W_will     == <<"w", "i", "l", "l">>
        W_gonna    == <<"g", "o", "n", "n", "a">>
        W_going    == <<"g", "o", "i", "n", "g">>
        W_to       == <<"t", "o">>
        W_hope     == <<"h", "o", "p", "e">>
        W_die      == <<"d", "i", "e">>
        W_hate     == <<"h", "a", "t", "e">>
        W_should   == <<"s", "h", "o", "u", "l", "d">>
        W_killAny  == {W_kill, W_k1ll, W_kStarll}
    IN
    << { << W_killAny, {W_yourself, W_self} >> },                \* (kill|k[i1*]ll)\s+(your)?self
       { << {W_kys} >> },                                        \* kys
       { << {W_hurt, W_harm},
            {W_yourself, W_urself, W_yurself, W_yorself, W_yrself} >> },
       { << {W_i}, {W_will, W_gonna}, W_killAny \cup {W_hurt, W_harm}, {W_you} >>,
         << {W_i}, {W_going}, {W_to}, W_killAny \cup {W_hurt, W_harm}, {W_you} >> },
       { << {W_you}, {W_should}, {W_die} >> },                   \* you (should|deserve to) die
       { << {W_hope}, {W_you}, {W_die} >> },                     \* hope you die
       { << {W_i}, {W_hate}, {W_you} >> }                        \* i hate you
    >>

\* re.sub(r'[^\w\s]', ' ', s)
StripPunctuation(t) ==
    [i \in 1..Len(t) |-> IF IsWordChar(t[i]) \/ IsSpace(t[i]) THEN t[i] ELSE " "]

\* .replace('*','i').replace('1','i').replace('@','a').replace('0','o')
Uncensor(t) ==
    [i \in 1..Len(t) |->
        CASE t[i] = "*" -> "i"
          [] t[i] = "1" -> "i"
          [] t[i] = "@" -> "a"
          [] t[i] = "0" -> "o"
          [] OTHER      -> t[i]]

\* the normalisation of check_content, in the order the code applies it
ModNormalize(t) == Uncensor(StripPunctuation(LowerText(t)))

\* the maximal runs of non-space characters of t, in order
RECURSIVE SplitWords(_, _, _)
SplitWords(t, cur, acc) ==
    IF t = <<>>
    THEN IF cur = <<>> THEN acc ELSE Append(acc, cur)
    ELSE IF IsSpace(Head(t))
         THEN SplitWords(Tail(t), <<>>, IF cur = <<>> THEN acc ELSE Append(acc, cur))
         ELSE SplitWords(Tail(t), Append(cur, Head(t)), acc)

Words(t) == SplitWords(t, <<>>, <<>>)

ShapeMatchesAt(ws, i, shape) ==
    /\ i + Len(shape) - 1 <= Len(ws)
    /\ \A j \in 1..Len(shape) : ws[i + j - 1] \in shape[j]

\* pattern.search(normalized) is not None
PatternMatches(ws, pat) ==
    \E shape \in pat : \E i \in 1..Len(ws) : ShapeMatchesAt(ws, i, shape)

SafeModeration ==
    [is_harmful |-> FALSE, matched_pattern |-> 0, severity |-> "safe", reason |-> NoneVal]

\* ContentModerator.check_content; matched_pattern is the index of the first
\* pattern that matches (0 for None), matched_text is not modelled
check_content(text) ==
    IF text = <<>>
    THEN SafeModeration
    ELSE LET ws   == Words(ModNormalize(text))
             hits == {i \in 1..Len(harmful_patterns) : PatternMatches(ws, harmful_patterns[i])}
         IN  IF hits = {}
             THEN SafeModeration
             ELSE [is_harmful      |-> TRUE,
                   matched_pattern |-> CHOOSE i \in hits : \A j \in hits : i <= j,
                   severity        |-> "high",
                   reason          |-> "Contains harmful or threatening language"]

----------------------------------------------------------------------------
(* Response Contract: analyzer_contract.py                                 *)

MODEL_VADER  == "vader"
MODEL_HYBRID == "hybrid"
MODEL_GPT    == "gpt-4o-mini"

VALID_SENTIMENTS == {"positive", "negative", "neutral", "harmful"}

\* SENTIMENT_EMOJI.get(sentiment, neutral face); the emoji are named
sentiment_to_emoji(sentiment) ==
    CASE sentiment = "positive" -> "smiling_face"
      [] sentiment = "negative" -> "disappointed_face"
      [] sentiment = "harmful"  -> "warning_sign"
      [] OTHER                  -> "neutral_face"

Abs(x) == IF x < 0 THEN -x ELSE x

Clamp(x, lo, hi) == IF x < lo THEN lo ELSE IF x > hi THEN hi ELSE x

(* round(): a / b (a >= 0, b > 0) rounded to the nearest integer, a tie to  *)
(* the even one.  Python rounds the binary float, which differs from the    *)
(* exact quotient only on a tie of the exact value (compound = +-0.4 in     *)
(* derive_scores_from_compound); the model feeds in no such value.          *)
RoundDiv(a, b) ==
    LET q == a \div b
        r == a % b
    IN  IF 2 * r < b THEN q
        ELSE IF 2 * r > b THEN q + 1
        ELSE IF q % 2 = 0 THEN q ELSE q + 1

\* mutant: the three scores are not renormalised by their total
derive_scores_unnormalised(compound) ==
    LET c == Clamp(compound, -1000, 1000)
    IN  [positive |-> RoundDiv(1000 + c, 2),
         negative |-> RoundDiv(1000 - c, 2),
         neutral  |-> 1000 - Abs(c),
         compound |-> c]

\* derive_scores_from_compound; compound and the result in thousandths
derive_scores_from_compound(compound) ==
    LET c        == Clamp(compound, -1000, 1000)
        \* positive, negative, neutral in units of 1/2000
        positive == 1000 + c
        negative == 1000 - c
        neutral  == 2 * (1000 - Abs(c))
        total    == positive + negative + neutral
    IN  [positive |-> RoundDiv(1000 * positive, total),
         negative |-> RoundDiv(1000 * negative, total),
         neutral  |-> RoundDiv(1000 * neutral, total),
         compound |-> c]

\* bool(v) is False
Falsy(v) ==
    \/ v.type = "null"
    \/ v.type = "str"  /\ v.val = ""
    \/ v.type = "list" /\ v.val = <<>>
    \/ v.type = "num"  /\ v.val = 0
    \/ v.type = "bool" /\ v.val = FALSE

\* build_standard_response; emotions and reasoning are Python values of any type
build_standard_response(text, sentiment, scores, confidence, model, emotions, reasoning, cached, error) ==
    [text       |-> text,
     sentiment  |-> sentiment,
     emoji      |-> sentiment_to_emoji(sentiment),
     scores     |-> scores,
     confidence |-> confidence,
     model      |-> model,
     emotions   |-> IF emotions.type # "null" THEN emotions ELSE PyList(<<>>),
     reasoning  |-> IF Falsy(reasoning) THEN PyStr("") ELSE reasoning,
     cached     |-> cached,
     error      |-> error]

\* build_error_response
build_error_response(text, model, error_message) ==
    build_standard_response(text, "neutral", derive_scores_from_compound(0), 0, model,
                            PyList(<<>>), PyStr("Analysis unavailable due to error."),
                            FALSE, error_message)

required_keys ==
    {"text", "sentiment", "emoji", "scores", "confidence", "model", "emotions",
     "reasoning", "cached", "error"}

required_score_keys == {"positive", "negative", "neutral", "compound"}

\* validate_response: the violations it lists, as a set
validate_response(response) ==
    {<<"Missing required key", k>> : k \in required_keys \ DOMAIN response}
    \cup (IF "scores" \in DOMAIN response
          THEN {<<"Missing required scores key", k>> :
                    k \in required_score_keys \ DOMAIN response.scores}
          ELSE {})
    \cup (IF "sentiment" \in DOMAIN response /\ response.sentiment \notin VALID_SENTIMENTS
          THEN {<<"Invalid sentiment", response.sentiment>>} ELSE {})
    \cup (IF "emotions" \in DOMAIN response /\ response.emotions.type # "list"
          THEN {<<"'emotions' must be a list", response.emotions.type>>} ELSE {})
    \cup (IF "cached" \in DOMAIN response /\ response.cached \notin BOOLEAN
          THEN {<<"'cached' must be a bool", response.cached>>} ELSE {})

----------------------------------------------------------------------------
(* Remote-Model Scorer: openai_analyzer.py, OpenAIAnalyzer                 *)

Absent == [type |-> "absent", val |-> NoneVal]

GptObject(sentiment, confidence, compound_score, emotions, reasoning) ==
    [type |-> "object",
     val  |-> [sentiment      |-> sentiment,
               confidence     |-> confidence,
               compound_score |-> compound_score,
               emotions       |-> emotions,
               reasoning      |-> reasoning]]

(* What client.chat.completions.create can do: raise (network, auth, rate   *)
(* limit), or return a message whose content is not JSON, or is JSON.       *)
RaiseTransport == [kind |-> "raise", msg |-> "Connection error."]
ReplyGarbage   == [kind |-> "text",  msg |-> "Here is the JSON:"]
ReplyGood      == [kind |-> "json",
                   json |-> GptObject(PyStr("positive"), PyNum(950), PyNum(900),
                                      PyList(<<"joy">>), PyStr("Uses the word love."))]
\* emotions is a string, not a list
ReplyBadEmotions == [kind |-> "json",
                     json |-> GptObject(PyStr("negative"), PyNum(700), PyNum(-300),
                                        PyStr("joy"), PyStr("Sounds ironic."))]
\* compound_score is a string float() rejects
ReplyBadCompound == [kind |-> "json",
                     json |-> GptObject(PyStr("positive"), PyNum(800), PyStr("high"),
                                        PyList(<<>>), PyStr("Positive words."))]
\* the JSON value is an array, not an object
ReplyNonObject == [kind |-> "json", json |-> PyList(<<>>)]
\* an unrequested label in capitals, a confidence sent as a numeric string,
\* no emotions key, a null reasoning
ReplyMixed     == [kind |-> "json",
                   json |-> GptObject(PyStr("Mixed"), PyStr("0.9"), PyNum(100),
                                      Absent, PyNull)]

RemoteOutcomes ==
    {RaiseTransport, ReplyGarbage, ReplyGood, ReplyBadEmotions, ReplyBadCompound,
     ReplyNonObject, ReplyMixed}

\* the confidence is reported as a percentage: 95
ReplyPercent   == [kind |-> "json",
                   json |-> GptObject(PyStr("positive"), PyNum(95000), PyNum(900),
                                      PyList(<<"joy">>), PyStr("Very sure."))]
\* the confidence is negative: -0.2
ReplyNegativeConfidence ==
    [kind |-> "json",
     json |-> GptObject(PyStr("negative"), PyNum(-200), PyNum(-500),
                        PyList(<<>>), PyStr("Not sure."))]

AllRemoteOutcomes == RemoteOutcomes \cup {ReplyPercent, ReplyNegativeConfidence}

\* the strings float() parses, with their values in thousandths
NumericStrings == [s \in {"0.9"} |-> 900]

\* float(v): [ok |-> TRUE, val |-> the float] or [ok |-> FALSE, val |-> 0]
FloatOf(v) ==
    CASE v.type = "num"  -> [ok |-> TRUE, val |-> v.val]
      [] v.type = "bool" -> [ok |-> TRUE, val |-> IF v.val THEN 1000 ELSE 0]
      [] v.type = "str"  -> IF v.val \in DOMAIN NumericStrings
                            THEN [ok |-> TRUE, val |-> NumericStrings[v.val]]
                            ELSE [ok |-> FALSE, val |-> 0]
      [] OTHER           -> [ok |-> FALSE, val |-> 0]

\* str.lower() on the labels the model uses
LowerLabel(s) ==
    CASE s = "Mixed"    -> "mixed"
      [] s = "Positive" -> "positive"
      [] s = "NEGATIVE" -> "negative"
      [] OTHER          -> s

\* dict.get(key, default) on the parsed object
GetOr(field, default) == IF field.type = "absent" THEN default ELSE field

\* mutant: the label is returned as the remote model sent it
CoerceSentimentKept(sentiment) == sentiment

\* if sentiment not in ("positive", "negative", "neutral"): sentiment = "neutral"
CoerceSentiment(sentiment) ==
    IF sentiment \in {"positive", "negative", "neutral"} THEN sentiment ELSE "neutral"

\* the body of the try block once json.loads has returned gpt_result
AnalyzeParsed(text, gpt_result) ==
    IF gpt_result.type # "object"
    THEN build_error_response(text, MODEL_GPT, "object has no attribute 'get'")
    ELSE
    LET g          == gpt_result.val
        compound   == FloatOf(GetOr(g.compound_score, PyNum(0)))
        rawLabel   == GetOr(g.sentiment, PyStr("neutral"))
        confidence == FloatOf(GetOr(g.confidence, PyNum(0)))
    IN  IF ~compound.ok
        THEN build_error_response(text, MODEL_GPT, "float() rejected compound_score")
        ELSE IF rawLabel.type # "str"
        THEN build_error_response(text, MODEL_GPT, "object has no attribute 'lower'")
        ELSE IF ~confidence.ok
        THEN build_error_response(text, MODEL_GPT, "float() rejected confidence")
        ELSE
        LET sentiment == CoerceSentiment(LowerLabel(rawLabel.val))
        IN  build_standard_response(text, sentiment,
                                    derive_scores_from_compound(compound.val),
                                    confidence.val, MODEL_GPT,
                                    GetOr(g.emotions, PyList(<<>>)),
                                    GetOr(g.reasoning, PyStr("")),
                                    FALSE, NoneVal)

\* mutant: only the empty string is answered without the remote call
IsBlankOnlyEmpty(text) == text = <<>>

\* not text or not text.strip()
IsBlank(text) == Strip(text) = <<>>

\* the canned response for blank text
EmptyTextResponse(text) ==
    build_standard_response(text, "neutral", derive_scores_from_compound(0), 0,
                            MODEL_GPT, PyList(<<>>), PyStr("Empty text provided."),
                            FALSE, NoneVal)

\* mutant: only JSON parse errors are caught; a failed call is answered as if
\* the reply were an empty object
AnalyzeRemoteTransportUnhandled(text, outcome) ==
    CASE outcome.kind = "raise" -> AnalyzeParsed(text, GptObject(Absent, Absent, Absent, Absent, Absent))
      [] outcome.kind = "text"  -> build_error_response(text, MODEL_GPT, "JSON parse error")
      [] OTHER                  -> AnalyzeParsed(text, outcome.json)

\* OpenAIAnalyzer.analyze for non-blank text, given what the remote call did
AnalyzeRemote(text, outcome) ==
    CASE outcome.kind = "raise" -> build_error_response(text, MODEL_GPT, outcome.msg)
      [] outcome.kind = "text"  -> build_error_response(text, MODEL_GPT, "JSON parse error")
      [] OTHER                  -> AnalyzeParsed(text, outcome.json)

----------------------------------------------------------------------------
(* Lexicon Scorer and Blended Scorer                                       *)

(* What the third-party engines can return.  vader.polarity_scores gives    *)
(* pos / neg / neu in thousandths and compound in ten-thousandths (VADER    *)
(* rounds it to four decimals); TextBlob gives a polarity in thousandths or *)
(* raises.  Both are opaque functions of the text: any value of the set.    *)
VaderOutputs ==
    {[pos |-> 677, neg |-> 0, neu |-> 323, compound |-> 6696],
     [pos |-> 0, neg |-> 0, neu |-> 1000, compound |-> 0]}

\* polarity_scores of a text without a token: score_valence gets no
\* sentiments and reports zero for all four
VaderNoTokens == [pos |-> 0, neg |-> 0, neu |-> 0, compound |-> 0]

\* what vader.polarity_scores(text) can return, outputs being its values on
\* texts with tokens
VaderOutputsAmong(text, outputs) == IF Words(text) = <<>> THEN {VaderNoTokens} ELSE outputs

VaderOutputsFor(text) == VaderOutputsAmong(text, VaderOutputs)

BlobOutcomes ==
    {[ok |-> TRUE, polarity |-> 500, msg |-> NoneVal],
     [ok |-> FALSE, polarity |-> 0, msg |-> "MissingCorpusError"]}

(* Wider values for requests that stop at the two local scorers: compounds  *)
(* at and next to the label thresholds and near the ends of the range.      *)
(* With BlobProbe's polarities 0.6 * compound + 0.4 * polarity is exactly   *)
(* 0.05 (0.02, 0.095) and -0.05 (-0.02, -0.095), and no value rounded below *)
(* is a tie.                                                                *)
BlendProbe ==
    {[pos |-> 677, neg |-> 0, neu |-> 323, compound |-> 6696],
     [pos |-> 130, neg |-> 110, neu |-> 760, compound |-> 200],
     [pos |-> 130, neg |-> 110, neu |-> 760, compound |-> 199],
     [pos |-> 110, neg |-> 130, neu |-> 760, compound |-> -200],
     [pos |-> 110, neg |-> 130, neu |-> 760, compound |-> -199],
     [pos |-> 850, neg |-> 0, neu |-> 150, compound |-> 9001],
     [pos |-> 0, neg |-> 850, neu |-> 150, compound |-> -9001]}

LexiconProbe ==
    BlendProbe \cup
    {[pos |-> 200, neg |-> 150, neu |-> 650, compound |-> 500],
     [pos |-> 200, neg |-> 150, neu |-> 650, compound |-> 499],
     [pos |-> 150, neg |-> 200, neu |-> 650, compound |-> -500],
     [pos |-> 150, neg |-> 200, neu |-> 650, compound |-> -499]}

BlobProbe ==
    {[ok |-> TRUE, polarity |-> 95, msg |-> NoneVal],
     [ok |-> TRUE, polarity |-> -95, msg |-> NoneVal],
     [ok |-> TRUE, polarity |-> 600, msg |-> NoneVal],
     [ok |-> TRUE, polarity |-> -900, msg |-> NoneVal],
     [ok |-> FALSE, polarity |-> 0, msg |-> "MissingCorpusError"]}

\* round(a / b) for a of either sign
Round(a, b) == IF a < 0 THEN -RoundDiv(-a, b) ELSE RoundDiv(a, b)

\* mutant: a score on a threshold is neutral
LabelStrict(num, den) ==
    IF 100 * num > 5 * den THEN "positive"
    ELSE IF 100 * num < -5 * den THEN "negative"
    ELSE "neutral"

\* the label thresholds, on a score given as num / den
Label(num, den) ==
    IF 100 * num >= 5 * den THEN "positive"
    ELSE IF 100 * num <= -5 * den THEN "negative"
    ELSE "neutral"

\* the scores dict both scorers build from vader's own breakdown
VaderScores(v) ==
    [positive |-> v.pos, negative |-> v.neg, neutral |-> v.neu,
     compound |-> Round(v.compound, 10)]

\* SentimentAnalyzer._analyze_with_vader, given what polarity_scores returned
analyze_with_vader(text, v) ==
    build_standard_response(text, Label(v.compound, 10000), VaderScores(v),
                            Round(Abs(v.compound), 10), MODEL_VADER,
                            PyList(<<>>), PyStr(""), FALSE, NoneVal)

\* the regex assertion \b at position i of t: a word character on exactly
\* one side
WordBoundary(t, i) ==
    LET before == i > 1 /\ i - 1 <= Len(t) /\ IsWordChar(t[i - 1])
        after  == i >= 1 /\ i <= Len(t) /\ IsWordChar(t[i])
    IN  before # after

\* t holds lit at position i
LitAt(t, i, lit) ==
    /\ i >= 1
    /\ i + Len(lit) - 1 <= Len(t)
    /\ SubSeq(t, i, i + Len(lit) - 1) = lit

\* \blit\b matches t at position i
PhraseAt(t, i, lit) ==
    /\ LitAt(t, i, lit)
    /\ WordBoundary(t, i)
    /\ WordBoundary(t, i + Len(lit))

\* the regex . matches every character of t from i to j - 1: no newline there
SameLine(t, i, j) == \A k \in i..(j - 1) : t[k] # "\n"

\* \s+lit matches t at position i
SpacesThen(t, i, lit) ==
    \E j \in (i + 1)..Len(t) :
        /\ \A k \in i..(j - 1) : IsSpace(t[k])
        /\ LitAt(t, j, lit)


(* pattern_boosts, in the dict's order, boosts in thousandths.  A phrase is *)
(* \b<one of lits>\b; the other three kinds carry the rest of their regex   *)
(* in BoostPatternMatches.  The texts reach the patterns lowercased and the *)
(* search ignores case, so every literal is written in lowercase.           *)
pattern_boosts ==
    <<[kind |-> "phrase", lits |-> {<<"n", "o", "t", " ", "b", "a", "d">>}, boost |-> 400],
      [kind |-> "phrase", lits |-> {<<"n", "o", "t", " ", "t", "e", "r", "r", "i", "b", "l", "e">>}, boost |-> 300],
      [kind |-> "phrase", lits |-> {<<"n", "o", "t", " ", "h", "o", "r", "r", "i", "b", "l", "e">>}, boost |-> 300],
      [kind |-> "phrase", lits |-> {<<"d", "o", "n", "'", "t", " ", "h", "a", "t", "e">>}, boost |-> 200],
      [kind |-> "phrase", lits |-> {<<"d", "o", "n", "'", "t", " ", "d", "i", "s", "l", "i", "k", "e">>}, boost |-> 300],
      [kind |-> "phrase", lits |-> {<<"n", "o", "t", " ", "t", "h", "e", " ", "w", "o", "r", "s", "t">>}, boost |-> 200],
      [kind |-> "phrase", lits |-> {<<"s", "l", "a", "p">>, <<"s", "l", "a", "p", "s">>}, boost |-> 500],
      [kind |-> "phrase", lits |-> {<<"b", "u", "s", "s", "i", "n">>}, boost |-> 600],
      [kind |-> "fire", lits |-> {<<"f", "i", "r", "e">>}, boost |-> 400],
      [kind |-> "phrase", lits |-> {<<"h", "i", "t", "s", " ", "d", "i", "f", "f", "e", "r", "e", "n", "t">>}, boost |-> 400],
      [kind |-> "phrase", lits |-> {<<"n", "o", " ", "c", "a", "p">>}, boost |-> 300],
      [kind |-> "phrase", lits |-> {<<"l", "i", "t">>}, boost |-> 400],
      [kind |-> "phrase", lits |-> {<<"t", "h", "a", "n", "k", "s", " ", "f", "o", "r", " ", "n", "o", "t", "h", "i", "n", "g">>}, boost |-> -700],
      [kind |-> "oh_great", lits |-> {<<"o", "h", " ", "g", "r", "e", "a", "t">>}, boost |-> -500],
      [kind |-> "just_what", lits |-> {<<"j", "u", "s", "t", " ", "w", "h", "a", "t", " ", "i", " ", "n", "e", "e", "d", "e", "d">>}, boost |-> -400],
      [kind |-> "phrase", lits |-> {<<"i", "t", "'", "s", " ", "f", "i", "n", "e">>}, boost |-> -200],
      [kind |-> "phrase", lits |-> {<<"o", "k", "a", "y", " ", "i", " ", "g", "u", "e", "s", "s">>}, boost |-> -300],
      [kind |-> "phrase", lits |-> {<<"d", "e", "c", "e", "n", "t", " ", "i", " ", "s", "u", "p", "p", "o", "s", "e">>}, boost |-> -200]>>

\* re.search(pattern, t, re.IGNORECASE) on a lowercased t
BoostPatternMatches(t, pat) ==
    \E lit \in pat.lits : \E i \in 1..Len(t) :
        /\ PhraseAt(t, i, lit)
        /\ LET stop == i + Len(lit)
           IN  CASE pat.kind = "phrase" -> TRUE
                 \* \bfire\b(?!\s+sale)
                 [] pat.kind = "fire" -> ~SpacesThen(t, stop, <<"s", "a", "l", "e">>)
                 \* \boh great\b.*\b(delay|problem|issue)\b
                 [] pat.kind = "oh_great" ->
                      \E w \in {<<"d", "e", "l", "a", "y">>, <<"p", "r", "o", "b", "l", "e", "m">>, <<"i", "s", "s", "u", "e">>} : \E j \in stop..Len(t) :
                          PhraseAt(t, j, w) /\ SameLine(t, stop, j)
                 \* \bjust what I needed\b(?!.*(good|great))
                 [] pat.kind = "just_what" ->
                      ~\E w \in {<<"g", "o", "o", "d">>, <<"g", "r", "e", "a", "t">>} : \E j \in stop..Len(t) :
                          LitAt(t, j, w) /\ SameLine(t, stop, j)

\* the sum of the boosts of the patterns numbered in S
RECURSIVE BoostSum(_)
BoostSum(S) ==
    IF S = {} THEN 0
    ELSE LET i == CHOOSE j \in S : TRUE
         IN  pattern_boosts[i].boost + BoostSum(S \ {i})

\* the patterns that match t
Matched(t) == {i \in 1..Len(pattern_boosts) : BoostPatternMatches(t, pattern_boosts[i])}

\* mutant: the boosts of the matched patterns are added up
check_patterns_sum(text) ==
    [sum |-> BoostSum(Matched(text)), matches |-> IF Matched(text) = {} THEN 0 ELSE 1]

(* HybridAnalyzer._check_patterns as [sum, matches] of the matched boosts   *)
(* (thousandths); the value it returns is sum / matches, or 0 without a     *)
(* match                                                                    *)
check_patterns(text) ==
    [sum |-> BoostSum(Matched(text)), matches |-> Cardinality(Matched(text))]

\* what _check_patterns returns when no pattern matches
NoBoost == [sum |-> 0, matches |-> 0]

(* round(a * b / c) for a, b >= 0 and c > 0, a tie to the even integer,     *)
(* taken in two steps of a hundred so that no product leaves 32 bits        *)
RoundMulDiv(a, b, c) ==
    LET x   == (a \div 100) * b
        rem == (x % c) * 100 + (a % 100) * b
        q   == (x \div c) * 100 + rem \div c
        r   == rem % c
    IN  IF 2 * r < c THEN q
        ELSE IF 2 * r > c THEN q + 1
        ELSE IF q % 2 = 0 THEN q ELSE q + 1

\* mutant: the fallback answers under the blended scorer's own name
hybrid_analyze_fallback_untagged(text, v, blob, boost) ==
    build_standard_response(text, Label(v.compound, 10000), VaderScores(v), 0,
                            MODEL_HYBRID, PyList(<<>>), PyStr(""), FALSE, blob.msg)

\* HybridAnalyzer.analyze, given what vader, TextBlob and the pattern scan did
hybrid_analyze(text, v, blob, boost) ==
    IF ~blob.ok
    THEN build_standard_response(text, Label(v.compound, 10000), VaderScores(v), 0,
                                 "vader-fallback", PyList(<<>>), PyStr(""), FALSE, blob.msg)
    ELSE
    LET n   == IF boost.matches > 0 THEN boost.matches ELSE 1
        \* combined_score = raw / den
        den == 100000 * n
        raw == n * (6 * v.compound + 40 * blob.polarity) + 100 * boost.sum
        num == Clamp(raw, -den, den)
        tot == 2 * (2 * den - Abs(num))
        dis == Abs(v.compound - 10 * blob.polarity)
    IN  build_standard_response(
            text, Label(num, den),
            [positive |-> RoundDiv(1000 * (den + num), tot),
             negative |-> RoundDiv(1000 * (den - num), tot),
             neutral  |-> RoundDiv(1000 * 2 * (den - Abs(num)), tot),
             compound |-> Round(1000 * num, den)],
            RoundMulDiv(20000 - dis, Abs(num), 20 * den),
            MODEL_HYBRID, PyList(<<>>), PyStr(""), FALSE, NoneVal)

----------------------------------------------------------------------------
(* The cache: openai_analyzer.py, _make_cache_key and lru_cache            *)

\* maxsize of the lru_cache decorator
MaxSize == 200

\* hashlib.md5(...).hexdigest(): a digest, taken to be collision-free
Md5(t) == [md5 |-> t]

\* _make_cache_key
make_cache_key(text) == Md5(Strip(LowerText(text)))

\* the key lru_cache makes of the call _cached_analyze(cache_key, text)
LruKey(cache_key, text) == <<cache_key, text>>

\* json.dumps / json.loads of a response
JsonDumps(r) == [json |-> r]

JsonLoads(s) == s.json

\* the position of key k in cache c, 0 when it is not there
CacheIndex(c, k) ==
    IF \E i \in 1..Len(c) : c[i].key = k
    THEN CHOOSE i \in 1..Len(c) : c[i].key = k
    ELSE 0

Remove(c, i) == SubSeq(c, 1, i - 1) \o SubSeq(c, i + 1, Len(c))

\* mutant: a hit leaves the entry where it is in the eviction order
LruTouchInPlace(c, i, now) == [c EXCEPT ![i].used = now]

(* lru_cache on a hit: the entry becomes the most recently used (the last   *)
(* of the sequence); `now` is the ghost time of the access.                 *)
LruTouch(c, i, now) == Append(Remove(c, i), [c[i] EXCEPT !.used = now])

\* mutant: the result of a failed call is not stored
LruInsertSkipsErrors(c, k, result, now) ==
    IF CacheIndex(c, k) # 0 \/ result.json.error # NoneVal THEN c
    ELSE IF Len(c) >= MaxSize
    THEN Append(Tail(c), [key |-> k, result |-> result, used |-> now])
    ELSE Append(c, [key |-> k, result |-> result, used |-> now])

(* lru_cache after the wrapped function returned: nothing if the key was    *)
(* added meanwhile, else the least recently used entry makes room when the  *)
(* cache is full, and the new entry becomes the most recently used.         *)
LruInsert(c, k, result, now) ==
    IF CacheIndex(c, k) # 0 THEN c
    ELSE IF Len(c) >= MaxSize
    THEN Append(Tail(c), [key |-> k, result |-> result, used |-> now])
    ELSE Append(c, [key |-> k, result |-> result, used |-> now])

\* mutant: the counter comparison is not strict
DetectHitNotStrict(hits_before, hits_after) == hits_after >= hits_before

\* the hit test of analyze_with_cache
DetectHit(hits_before, hits_after) == hits_after > hits_before

----------------------------------------------------------------------------
(* Analyzer Router: sentiment_analyzer.py                                  *)

VALID_MODELS == {MODEL_VADER, MODEL_HYBRID, MODEL_GPT}

\* the model names a caller may pass
RequestedModels == VALID_MODELS \cup {"not_a_real_model"}

\* and the name the tests pass for the blended scorer
AllRequestedModels == RequestedModels \cup {"distilbert"}

\* SentimentRequest of the /analyze endpoint: text of 1..5000 characters, model
\* matching ^(vader|hybrid|gpt-4o-mini)$; the endpoint answers 422 otherwise
SentimentRequestValid(text, model) ==
    /\ Len(text) >= 1
    /\ Len(text) <= 5000
    /\ model \in {"vader", "hybrid", "gpt-4o-mini"}

\* mutant: an unknown model falls back to the blended scorer
NormalizeModelToHybrid(model) == IF model \in VALID_MODELS THEN model ELSE MODEL_HYBRID

NormalizeModel(model) == IF model \in VALID_MODELS THEN model ELSE MODEL_VADER

\* mutant: the moderation result is not consulted
IsFlaggedIgnored(moderation) == FALSE

\* if moderation['is_harmful']
IsFlagged(moderation) == moderation.is_harmful

\* mutant: flagged content is labelled by its polarity instead
HarmfulResponseAsNegative(text, model) ==
    build_standard_response(text, "negative", derive_scores_from_compound(-990), 990, model, PyList(<<>>), PyStr(""), FALSE, NoneVal)

\* the response built for flagged content, before moderation is attached
HarmfulResponse(text, model) ==
    build_standard_response(text, "harmful", derive_scores_from_compound(-990), 1000,
                            model, PyList(<<>>),
                            PyStr("Content flagged by moderation system."), FALSE, NoneVal)

\* result['moderation'] = {...} of the flagged branch
AttachFlagged(result, moderation) ==
    result @@ [moderation |-> [flagged |-> TRUE, reason |-> moderation.reason,
                               severity |-> moderation.severity]]

\* mutant: the moderator's verdict is attached without its severity
AttachSafeNoSeverity(result) ==
    result @@ [moderation |-> [flagged |-> FALSE, reason |-> NoneVal, severity |-> NoneVal]]

\* result['moderation'] = {...} after a scorer ran
AttachSafe(result) ==
    result @@ [moderation |-> [flagged |-> FALSE, reason |-> NoneVal, severity |-> "safe"]]

----------------------------------------------------------------------------
(* State                                                                   *)

\* the threads that serve requests
Procs == {"t1", "t2"}

\* the requests one behaviour starts
MaxCalls == 2

VARIABLES
    apiKeySet,  \* OPENAI_API_KEY is in the environment
    cache,      \* the lru_cache of _cached_analyze, least recently used first
    hits,       \* cache_info().hits
    misses,     \* cache_info().misses
    clock,      \* ghost: the number of cache accesses so far
    pc,         \* where each thread is in its request
    req,        \* the locals of each thread's request
    obs,        \* ghost: what each thread's request has done so far
    started,    \* ghost: the number of requests started
    history,    \* ghost: the requests that ended, in order
    db          \* the rows of the table sentiment_analyses, oldest first

vars == <<apiKeySet, cache, hits, misses, clock, pc, req, obs, started, history, db>>

IdleReq ==
    [text |-> <<>>, requested |-> NoneVal, model |-> NoneVal, via |-> NoneVal,
     api |-> FALSE,
     moderation |-> SafeModeration, cache_key |-> NoneVal, hits_before |-> 0,
     fresh |-> NoneVal, json_result |-> NoneVal, result |-> NoneVal]

IdleObs ==
    [moderated |-> FALSE,   \* check_content has returned
     scorers   |-> {},      \* the scorers the Router has called
     vader     |-> NoneVal, \* what vader.polarity_scores returned
     blob      |-> NoneVal, \* what TextBlob did
     remote    |-> 0,       \* the remote calls made
     present   |-> FALSE,   \* the entry was in the cache when the cache path was entered
     lookup    |-> "none",  \* what lru_cache's lookup found: hit or miss
     outcome   |-> NoneVal, \* what the remote call did
     stored    |-> NoneVal] \* the cache entry's value when the lookup hit

Init ==
    /\ apiKeySet \in BOOLEAN
    /\ cache = <<>>
    /\ hits = 0
    /\ misses = 0
    /\ clock = 0
    /\ pc = [p \in Procs |-> "idle"]
    /\ req = [p \in Procs |-> IdleReq]
    /\ obs = [p \in Procs |-> IdleObs]
    /\ started = 0
    /\ history = <<>>
    /\ db = <<>>

MyKey(p) == LruKey(req[p].cache_key, req[p].text)

\* ghost: the entry analyze_with_cache(text) looks up is in the cache
Present(text) == CacheIndex(cache, LruKey(make_cache_key(text), text)) # 0

----------------------------------------------------------------------------
(* Router.analyze, lines 60-68: normalise the model name, moderate; api     *)
(* tells whether the caller is the endpoint /analyze                        *)
RouterCall(p, text, model, api) ==
    /\ pc[p] = "idle"
    /\ started < MaxCalls
    /\ started' = started + 1
    /\ req' = [req EXCEPT ![p] = [IdleReq EXCEPT !.text = text,
                                                  !.requested = model,
                                                  !.model = NormalizeModel(model),
                                                  !.via = "router",
                                                  !.api = api,
                                                  !.moderation = check_content(text)]]
    /\ obs' = [obs EXCEPT ![p] = [IdleObs EXCEPT !.moderated = TRUE]]
    /\ pc' = [pc EXCEPT ![p] = "route"]
    /\ UNCHANGED <<apiKeySet, cache, hits, misses, clock, history, db>>

(* Router.analyze called by a caller other than the endpoint                *)
RouterReceive(p, text, model) == RouterCall(p, text, model, FALSE)

(* lines 70-86: flagged content is answered without a scorer                *)
RouterHarmful(p) ==
    /\ pc[p] = "route"
    /\ IsFlagged(req[p].moderation)
    /\ req' = [req EXCEPT ![p].result =
                 AttachFlagged(HarmfulResponse(req[p].text, req[p].model), req[p].moderation)]
    /\ pc' = [pc EXCEPT ![p] = "done"]
    /\ UNCHANGED <<apiKeySet, cache, hits, misses, clock, obs, started, history, db>>

(* lines 93-103 with _analyze_with_vader, vader's values drawn from outputs *)
RouterVaderWith(p, outputs) ==
    /\ pc[p] = "route"
    /\ ~IsFlagged(req[p].moderation)
    /\ req[p].model \notin {MODEL_GPT, MODEL_HYBRID}
    /\ \E v \in VaderOutputsAmong(req[p].text, outputs) :
         /\ req' = [req EXCEPT ![p].result = AttachSafe(analyze_with_vader(req[p].text, v))]
         /\ obs' = [obs EXCEPT ![p].scorers = @ \cup {"lexicon"}, ![p].vader = v]
    /\ pc' = [pc EXCEPT ![p] = "done"]
    /\ UNCHANGED <<apiKeySet, cache, hits, misses, clock, started, history, db>>

RouterVader(p) == RouterVaderWith(p, VaderOutputs)

(* lines 91-92, 96-103 with HybridAnalyzer.analyze, vader's values drawn    *)
(* from outputs and TextBlob's from blobs                                   *)
RouterHybridWith(p, outputs, blobs) ==
    /\ pc[p] = "route"
    /\ ~IsFlagged(req[p].moderation)
    /\ req[p].model = MODEL_HYBRID
    /\ \E v \in VaderOutputsAmong(req[p].text, outputs), b \in blobs :
         /\ req' = [req EXCEPT ![p].result =
                      AttachSafe(hybrid_analyze(req[p].text, v, b,
                                                check_patterns(LowerText(req[p].text))))]
         /\ obs' = [obs EXCEPT ![p].scorers = @ \cup {"blended"},
                               ![p].vader = v, ![p].blob = b]
    /\ pc' = [pc EXCEPT ![p] = "done"]
    /\ UNCHANGED <<apiKeySet, cache, hits, misses, clock, started, history, db>>

RouterHybrid(p) == RouterHybridWith(p, VaderOutputs, BlobOutcomes)

(* lines 89-90: _analyze_with_gpt enters analyze_with_cache                 *)
RouterGpt(p) ==
    /\ pc[p] = "route"
    /\ ~IsFlagged(req[p].moderation)
    /\ req[p].model = MODEL_GPT
    /\ obs' = [obs EXCEPT ![p].scorers = @ \cup {"remote"},
                          ![p].present = Present(req[p].text)]
    /\ pc' = [pc EXCEPT ![p] = "awc_before"]
    /\ UNCHANGED <<apiKeySet, cache, hits, misses, clock, req, started, history, db>>

----------------------------------------------------------------------------
(* analyze_with_cache called on its own (as test_openai_quick.py does)      *)
AwcCall(p, text) ==
    /\ pc[p] = "idle"
    /\ started < MaxCalls
    /\ started' = started + 1
    /\ req' = [req EXCEPT ![p] = [IdleReq EXCEPT !.text = text, !.via = "direct"]]
    /\ obs' = [obs EXCEPT ![p] = [IdleObs EXCEPT !.present = Present(text)]]
    /\ pc' = [pc EXCEPT ![p] = "awc_before"]
    /\ UNCHANGED <<apiKeySet, cache, hits, misses, clock, history, db>>

(* analyze_with_cache: cache_key, then hits_before = cache_info().hits      *)
AwcHitsBefore(p) ==
    /\ pc[p] = "awc_before"
    /\ req' = [req EXCEPT ![p].cache_key = make_cache_key(req[p].text),
                          ![p].hits_before = hits]
    /\ pc' = [pc EXCEPT ![p] = "awc_lookup"]
    /\ UNCHANGED <<apiKeySet, cache, hits, misses, clock, obs, started, history, db>>

\* mutant: the wrapped function is called with the cache's lock held
LockHeldAcrossCall(stage) == stage = "remote"

(* lru_cache's lock: the wrapper takes it for the lookup and again for the  *)
(* insertion and releases it before it calls the wrapped function; each of  *)
(* the two is one step here, so the lock is held at no stage between steps. *)
LockHeld(stage) == FALSE

\* no other thread holds the cache's lock
LockFree(p) == \A q \in DOMAIN pc \ {p} : ~LockHeld(pc[q])

(* _cached_analyze(cache_key, text): lru_cache finds the key                *)
LruHit(p) ==
    /\ pc[p] = "awc_lookup"
    /\ LockFree(p)
    /\ CacheIndex(cache, MyKey(p)) # 0
    /\ LET i == CacheIndex(cache, MyKey(p))
       IN  /\ cache' = LruTouch(cache, i, clock + 1)
           /\ req' = [req EXCEPT ![p].json_result = cache[i].result]
           /\ obs' = [obs EXCEPT ![p].lookup = "hit", ![p].stored = cache[i].result]
    /\ hits' = hits + 1
    /\ clock' = clock + 1
    /\ pc' = [pc EXCEPT ![p] = "awc_after"]
    /\ UNCHANGED <<apiKeySet, misses, started, history, db>>

(* _cached_analyze(cache_key, text): lru_cache does not find the key and    *)
(* calls the function, outside its lock: OpenAIAnalyzer() raises ValueError *)
(* without an API key; analyze() answers blank text itself and otherwise    *)
(* goes to the remote call.                                                 *)
LruMiss(p) ==
    /\ pc[p] = "awc_lookup"
    /\ LockFree(p)
    /\ CacheIndex(cache, MyKey(p)) = 0
    /\ misses' = misses + 1
    /\ obs' = [obs EXCEPT ![p].lookup = "miss"]
    /\ IF ~apiKeySet
       THEN /\ pc' = [pc EXCEPT ![p] = "raised"]
            /\ req' = req
       ELSE IF IsBlank(req[p].text)
       THEN /\ pc' = [pc EXCEPT ![p] = "awc_store"]
            /\ req' = [req EXCEPT ![p].fresh = EmptyTextResponse(req[p].text)]
       ELSE /\ pc' = [pc EXCEPT ![p] = "remote"]
            /\ req' = req
    /\ UNCHANGED <<apiKeySet, cache, hits, clock, started, history, db>>

\* mutant: a failed call is made again
AfterCallRetry(outcome) == IF outcome.kind = "raise" THEN "remote" ELSE "awc_store"

\* where analyze goes after the call: the try block has no loop, and both
\* except clauses return the error response
AfterCall(outcome) == "awc_store"

(* OpenAIAnalyzer.analyze, lines 92-145: the remote call and what the code  *)
(* makes of its outcome                                                     *)
RemoteCall(p, outcome) ==
    /\ pc[p] = "remote"
    /\ req' = [req EXCEPT ![p].fresh = AnalyzeRemote(req[p].text, outcome)]
    /\ obs' = [obs EXCEPT ![p].remote = @ + 1, ![p].outcome = outcome]
    /\ pc' = [pc EXCEPT ![p] = AfterCall(outcome)]
    /\ UNCHANGED <<apiKeySet, cache, hits, misses, clock, started, history, db>>

(* _cached_analyze returns json.dumps(result); lru_cache stores it          *)
LruStore(p) ==
    /\ pc[p] = "awc_store"
    /\ LockFree(p)
    /\ LET js == JsonDumps(req[p].fresh)
       IN  /\ cache' = LruInsert(cache, MyKey(p), js, clock + 1)
           /\ req' = [req EXCEPT ![p].json_result = js]
    /\ clock' = clock + 1
    /\ pc' = [pc EXCEPT ![p] = "awc_after"]
    /\ UNCHANGED <<apiKeySet, hits, misses, obs, started, history, db>>

\* mutant: the cache holds the dict itself, and callers write into it
CacheAfterWriteShared(c, k, result) ==
    IF CacheIndex(c, k) # 0
    THEN [c EXCEPT ![CacheIndex(c, k)].result = JsonDumps(result)]
    ELSE c

(* The cache after a caller wrote to the response it was given for key k,   *)
(* which now reads result: the cache holds the JSON string and json.loads   *)
(* builds a new dict on every call, so no write reaches the entry.          *)
CacheAfterWrite(c, k, result) == c

(* analyze_with_cache, lines 201-209: hits_after, json.loads, the cached    *)
(* flag; and, under the Router, lines 96-103                                *)
AwcReturn(p) ==
    /\ pc[p] = "awc_after"
    /\ LET result == [JsonLoads(req[p].json_result) EXCEPT
                         !.cached = DetectHit(req[p].hits_before, hits)]
           returned == IF req[p].via = "router" THEN AttachSafe(result) ELSE result
       IN  /\ req' = [req EXCEPT ![p].result = returned]
           /\ cache' = CacheAfterWrite(cache, MyKey(p), returned)
    /\ pc' = [pc EXCEPT ![p] = "done"]
    /\ UNCHANGED <<apiKeySet, hits, misses, clock, obs, started, history, db>>

----------------------------------------------------------------------------
(* The endpoint POST /analyze, api/sentiment.py                             *)

\* keep_last of cleanup_old_records(keep_last=10000)
KeepLast == 10000

\* what the database does for one request: get_connection() returns None, the
\* INSERT raises, or the INSERT succeeds
DbOutcomes == {"none", "raises", "ok"}

\* mutant: the save does not look at the moderation result
ShouldSaveAnyContent(conn, result) == conn # "none"

\* if conn is not None and not result['moderation']['flagged']
ShouldSave(conn, result) == conn # "none" /\ ~result.moderation.flagged

\* the row the INSERT adds
RowOf(text, model, result, timestamp) ==
    [text       |-> text,
     sentiment  |-> result.sentiment,
     emoji      |-> result.emoji,
     positive   |-> result.scores.positive,
     negative   |-> result.scores.negative,
     neutral    |-> result.scores.neutral,
     compound   |-> result.scores.compound,
     timestamp  |-> timestamp,
     flagged    |-> result.moderation.flagged,
     moderation_reason   |-> result.moderation.reason,
     moderation_severity |-> result.moderation.severity,
     model      |-> model]

\* cleanup_old_records: every flagged row goes, then all but the last
\* keep_last rows
cleanup_old_records(rows, keep_last) ==
    LET unflagged(r) == ~r.flagged
        safe == SelectSeq(rows, unflagged)
    IN  IF Len(safe) > keep_last
        THEN SubSeq(safe, Len(safe) - keep_last + 1, Len(safe))
        ELSE safe

(* the request body does not validate as a SentimentRequest: 422, and the   *)
(* handler does not run                                                     *)
ApiReject(p, text, model) ==
    /\ pc[p] = "idle"
    /\ started < MaxCalls
    /\ ~SentimentRequestValid(text, model)
    /\ started' = started + 1
    /\ req' = [req EXCEPT ![p] = [IdleReq EXCEPT !.text = text, !.requested = model,
                                                  !.via = "api", !.api = TRUE]]
    /\ pc' = [pc EXCEPT ![p] = "rejected"]
    /\ UNCHANGED <<apiKeySet, cache, hits, misses, clock, obs, history, db>>

(* analyze_sentiment, line 30: the handler calls Router.analyze             *)
ApiReceive(p, text, model) ==
    /\ SentimentRequestValid(text, model)
    /\ RouterCall(p, text, model, TRUE)

(* analyze_sentiment, lines 33-80: the timestamp, the save unless the       *)
(* content is flagged, one time in ten the cleanup, saved_to_db             *)
ApiSave(p, conn, cleanup) ==
    /\ pc[p] = "done"
    /\ req[p].api
    /\ LET timestamp == started
           result == req[p].result @@ [timestamp |-> timestamp]
           inserted == ShouldSave(conn, result) /\ conn = "ok"
           rows == IF inserted
                   THEN Append(db, RowOf(req[p].text, req[p].requested, result, timestamp))
                   ELSE db
       IN  /\ db' = IF inserted /\ cleanup THEN cleanup_old_records(rows, KeepLast) ELSE rows
           /\ req' = [req EXCEPT ![p].result = result @@ [saved_to_db |-> inserted]]
           /\ cache' = CacheAfterWrite(cache, MyKey(p), result @@ [saved_to_db |-> inserted])
    /\ pc' = [pc EXCEPT ![p] = "api_done"]
    /\ UNCHANGED <<apiKeySet, hits, misses, clock, obs, started, history>>

(* the request has returned to its caller, or raised to it                  *)
Complete(p) ==
    /\ pc[p] \in {"done", "raised", "api_done", "rejected"}
    /\ req[p].api => pc[p] # "done"
    /\ history' = Append(history, [text |-> req[p].text, via |-> req[p].via,
                                   ended |-> pc[p], result |-> req[p].result])
    /\ req' = [req EXCEPT ![p] = IdleReq]
    /\ obs' = [obs EXCEPT ![p] = IdleObs]
    /\ pc' = [pc EXCEPT ![p] = "idle"]
    /\ UNCHANGED <<apiKeySet, cache, hits, misses, clock, started, db>>

\* the steps of analyze_with_cache
AwcStep(p) ==
    \/ AwcHitsBefore(p)
    \/ LruHit(p)
    \/ LruMiss(p)
    \/ \E outcome \in RemoteOutcomes : RemoteCall(p, outcome)
    \/ LruStore(p)
    \/ AwcReturn(p)

(* Requests to the Router, served concurrently by the threads of Procs      *)
Next ==
    \E p \in Procs :
        \/ \E text \in Texts, model \in RequestedModels : RouterReceive(p, text, model)
        \/ RouterHarmful(p)
        \/ RouterVader(p)
        \/ RouterHybrid(p)
        \/ RouterGpt(p)
        \/ AwcStep(p)
        \/ Complete(p)

Spec == Init /\ [][Next]_vars

----------------------------------------------------------------------------
(* analyze_with_cache called directly, one call at a time                   *)

\* no other thread has a request under way
Alone(p) == \A q \in Procs \ {p} : pc[q] = "idle"

NextSeq ==
    \E p \in Procs :
        \/ Alone(p) /\ \E text \in SeqTexts : AwcCall(p, text)
        \/ Alone(p) /\ AwcHitsBefore(p)
        \/ Alone(p) /\ LruHit(p)
        \/ Alone(p) /\ LruMiss(p)
        \/ Alone(p) /\ \E outcome \in RemoteOutcomes : RemoteCall(p, outcome)
        \/ Alone(p) /\ LruStore(p)
        \/ Alone(p) /\ AwcReturn(p)
        \/ Alone(p) /\ Complete(p)

SeqSpec == Init /\ [][NextSeq]_vars

----------------------------------------------------------------------------
(* The same, from a cache that earlier calls have filled                    *)

\* the i-th of the texts that filled the cache
FillerText(i) == <<"w", LowerChars[((i - 1) \div 26) + 1], LowerChars[((i - 1) % 26) + 1]>>

\* the cache after analyze_with_cache(FillerText(i)) for i = 1..n, each a miss
\* answered by the remote model
WarmCache(n) ==
    [i \in 1..n |->
        [key    |-> LruKey(make_cache_key(FillerText(i)), FillerText(i)),
         result |-> JsonDumps(AnalyzeRemote(FillerText(i), ReplyGood)),
         used   |-> i]]

InitWarm ==
    /\ apiKeySet = TRUE
    /\ cache \in {WarmCache(MaxSize - 1), WarmCache(MaxSize)}
    /\ hits = 0
    /\ misses = Len(cache)
    /\ clock = Len(cache)
    /\ pc = [p \in Procs |-> "idle"]
    /\ req = [p \in Procs |-> IdleReq]
    /\ obs = [p \in Procs |-> IdleObs]
    /\ started = 0
    /\ history = <<>>
    /\ db = <<>>

LruTexts == {FillerText(1), FillerText(2), TxtLove, TxtLoveVar, TxtBlank}

\* the remote outcomes of these calls: a reply and a failure
LruOutcomes == {ReplyGood, RaiseTransport}

NextLru ==
    \E p \in Procs :
        \/ Alone(p) /\ \E text \in LruTexts : AwcCall(p, text)
        \/ Alone(p) /\ AwcHitsBefore(p)
        \/ Alone(p) /\ LruHit(p)
        \/ Alone(p) /\ LruMiss(p)
        \/ Alone(p) /\ \E outcome \in LruOutcomes : RemoteCall(p, outcome)
        \/ Alone(p) /\ LruStore(p)
        \/ Alone(p) /\ AwcReturn(p)
        \/ Alone(p) /\ Complete(p)

LruSpec == InitWarm /\ [][NextLru]_vars

----------------------------------------------------------------------------
(* Requests to the Router, one at a time, over the texts of the moderation  *)
(* samples as well, every model name and every remote outcome               *)

RouterTexts == SeqTexts \cup ModerationTexts

NextRouter ==
    \E p \in Procs :
        \/ Alone(p) /\ \E text \in RouterTexts, model \in AllRequestedModels :
                           RouterReceive(p, text, model)
        \/ Alone(p) /\ RouterHarmful(p)
        \/ Alone(p) /\ RouterVader(p)
        \/ Alone(p) /\ RouterHybrid(p)
        \/ Alone(p) /\ RouterGpt(p)
        \/ Alone(p) /\ AwcHitsBefore(p)
        \/ Alone(p) /\ LruHit(p)
        \/ Alone(p) /\ LruMiss(p)
        \/ Alone(p) /\ \E outcome \in AllRemoteOutcomes : RemoteCall(p, outcome)
        \/ Alone(p) /\ LruStore(p)
        \/ Alone(p) /\ AwcReturn(p)
        \/ Alone(p) /\ Complete(p)

RouterSpec == Init /\ [][NextRouter]_vars

----------------------------------------------------------------------------
(* One Router request for the lexicon or the blended scorer, over the texts *)
(* of the pattern boosts and the wider values of the two libraries          *)

ScorerModels == {MODEL_VADER, MODEL_HYBRID}

NextScorer ==
    \E p \in Procs :
        \/ Alone(p) /\ \E text \in ScorerTexts, model \in ScorerModels :
                           RouterReceive(p, text, model)
        \/ Alone(p) /\ RouterVaderWith(p, LexiconProbe)
        \/ Alone(p) /\ RouterHybridWith(p, BlendProbe, BlobProbe)

ScorerSpec == Init /\ [][NextScorer]_vars

----------------------------------------------------------------------------
(* One analyze_with_cache call whose reply carries any of a range of        *)
(* compound scores, for derive_scores_from_compound                         *)

\* the compound_score values of the replies, in thousandths: every twentieth
\* from -1.5 to 1.5 but the two on which Python's round of the float differs
\* from the exact tie, and values next to the ends and to zero
CompoundInputs ==
    {c \in -1500..1500 : c % 50 = 0 /\ Abs(c) # 400}
        \cup {-1001, -999, -990, -1, 1, 333, 667, 990, 999, 1001}

\* a reply with the compound score c
ReplyCompound(c) ==
    [kind |-> "json",
     json |-> GptObject(PyStr("neutral"), PyNum(500), PyNum(c), PyList(<<>>), PyStr("Plain."))]

NextDerive ==
    \E p \in Procs :
        \/ Alone(p) /\ AwcCall(p, TxtLove)
        \/ Alone(p) /\ AwcHitsBefore(p)
        \/ Alone(p) /\ LruMiss(p)
        \/ Alone(p) /\ \E c \in CompoundInputs : RemoteCall(p, ReplyCompound(c))
        \/ Alone(p) /\ LruStore(p)
        \/ Alone(p) /\ AwcReturn(p)

DeriveSpec == Init /\ [][NextDerive]_vars

----------------------------------------------------------------------------
(* analyze_with_cache called by three threads at once, each for a text     *)
(* that is not cached                                                       *)

\* the threads of the burst
BurstProcs == {"t1", "t2", "t3"}

BurstTexts == {TxtLove, TxtHate}

\* every thread has entered analyze_with_cache(text) and none has read
\* cache_info() yet
InitBurst ==
    /\ apiKeySet = TRUE
    /\ cache = <<>>
    /\ hits = 0
    /\ misses = 0
    /\ clock = 0
    /\ pc = [p \in BurstProcs |-> "awc_before"]
    /\ \E text \in [BurstProcs -> BurstTexts] :
         req = [p \in BurstProcs |-> [IdleReq EXCEPT !.text = text[p], !.via = "direct"]]
    /\ obs = [p \in BurstProcs |-> IdleObs]
    /\ started = Cardinality(BurstProcs)
    /\ history = <<>>
    /\ db = <<>>

NextBurst ==
    \E p \in BurstProcs :
        \/ AwcHitsBefore(p)
        \/ LruHit(p)
        \/ LruMiss(p)
        \/ \E outcome \in LruOutcomes : RemoteCall(p, outcome)
        \/ LruStore(p)
        \/ AwcReturn(p)

BurstSpec == InitBurst /\ [][NextBurst]_vars

----------------------------------------------------------------------------
(* Requests to the endpoint /analyze, one at a time                         *)

ApiTexts == {TxtLove, TxtHate, TxtEmpty}

ApiModels == VALID_MODELS \cup {"distilbert"}

NextApi ==
    \E p \in Procs :
        \/ Alone(p) /\ \E text \in ApiTexts, model \in ApiModels : ApiReject(p, text, model)
        \/ Alone(p) /\ \E text \in ApiTexts, model \in ApiModels : ApiReceive(p, text, model)
        \/ Alone(p) /\ RouterHarmful(p)
        \/ Alone(p) /\ RouterVader(p)
        \/ Alone(p) /\ RouterHybrid(p)
        \/ Alone(p) /\ RouterGpt(p)
        \/ Alone(p) /\ AwcHitsBefore(p)
        \/ Alone(p) /\ LruHit(p)
        \/ Alone(p) /\ LruMiss(p)
        \/ Alone(p) /\ \E outcome \in LruOutcomes : RemoteCall(p, outcome)
        \/ Alone(p) /\ LruStore(p)
        \/ Alone(p) /\ AwcReturn(p)
        \/ Alone(p) /\ \E conn \in DbOutcomes, cleanup \in BOOLEAN : ApiSave(p, conn, cleanup)
        \/ Alone(p) /\ Complete(p)

ApiSpec == Init /\ [][NextApi]_vars

----------------------------------------------------------------------------
(* Claims                                                                  *)

\* a Router request of thread p is under way or has returned
InRouter(p) == pc[p] # "idle" /\ req[p].via = "router"

\* the Router has returned a response to the caller of thread p
Returned(p) == pc[p] = "done"

\* the Moderation Filter flags the text of thread p's request: the verdict
\* check_content returned for it when the Router moderated it
Flagged(p) == req[p].moderation.is_harmful

\* thread p's request is inside the scorer path of the remote model
InRemotePath(p) == pc[p] \in {"awc_before", "awc_lookup", "remote", "awc_store", "awc_after"}

(* C1: in every Router request a scorer is invoked only after the           *)
(* Moderation Filter has run on the request's text and returned             *)
(* is_harmful = false; for a flagged text no scorer and no remote call is   *)
(* ever invoked, whatever model was requested.                              *)
C1_ScorerOnlyAfterSafeModeration ==
    \A p \in Procs :
        InRouter(p) =>
            /\ (obs[p].scorers # {} \/ obs[p].remote > 0 \/ InRemotePath(p))
                   => obs[p].moderated /\ ~Flagged(p)
            /\ Flagged(p) => obs[p].scorers = {} /\ obs[p].remote = 0 /\ ~InRemotePath(p)

\* one request for the remote model was answered as flagged without a scorer
\* while another, moderated and safe, has made its remote call
C1_Witness ==
    \E p, q \in Procs :
        /\ InRouter(p) /\ Returned(p) /\ Flagged(p)
        /\ req[p].requested = MODEL_GPT /\ obs[p].scorers = {}
        /\ InRouter(q) /\ obs[q].moderated /\ ~Flagged(q)
        /\ obs[q].scorers = {"remote"} /\ obs[q].remote = 1

(* C2: for a text the Moderation Filter flags and any requested model,      *)
(* valid or unknown, the Router's response has sentiment "harmful",         *)
(* moderation.flagged true, scores.compound -0.99, confidence 1.0, empty    *)
(* emotions, and the Router's own reasoning text, no scorer having run.     *)
C2_FlaggedResponse ==
    \A p \in Procs :
        (InRouter(p) /\ Returned(p) /\ Flagged(p)) =>
            /\ req[p].result.sentiment = "harmful"
            /\ req[p].result.moderation.flagged = TRUE
            /\ req[p].result.scores.compound = -990
            /\ req[p].result.confidence = 1000
            /\ req[p].result.emotions = PyList(<<>>)
            /\ req[p].result.reasoning = PyStr("Content flagged by moderation system.")
            /\ obs[p].scorers = {}
            /\ obs[p].remote = 0

\* a flagged text was answered for an unknown model name
C2_Witness ==
    \E p \in Procs :
        /\ InRouter(p) /\ Returned(p) /\ Flagged(p)
        /\ req[p].requested \notin VALID_MODELS
        /\ req[p].result.sentiment = "harmful"

(* C3, as claimed: the response for flagged content carries positive = 0,   *)
(* negative = 1, neutral = 0 with compound = -0.99.                         *)
C3_PunitiveProfileAsClaimed ==
    \A p \in Procs :
        (InRouter(p) /\ Returned(p) /\ Flagged(p)) =>
            req[p].result.scores =
                [positive |-> 0, negative |-> 1000, neutral |-> 0, compound |-> -990]

(* C3, amended: the response for flagged content carries the scores that    *)
(* derive_scores_from_compound gives for -0.99: positive = 0.005,           *)
(* negative = 0.985, neutral = 0.01, compound = -0.99.                      *)
C3_PunitiveProfile ==
    \A p \in Procs :
        (InRouter(p) /\ Returned(p) /\ Flagged(p)) =>
            req[p].result.scores =
                [positive |-> 5, negative |-> 985, neutral |-> 10, compound |-> -990]

\* a flagged text was answered for the blended scorer's model name
C3_Witness ==
    \E p \in Procs :
        /\ InRouter(p) /\ Returned(p) /\ Flagged(p)
        /\ req[p].requested = MODEL_HYBRID
        /\ req[p].result.scores.negative = 985

----------------------------------------------------------------------------
(* Claims about analyze_with_cache                                         *)

\* the cache entry analyze_with_cache(text) uses, as a response
StoredFor(text) ==
    JsonLoads(cache[CacheIndex(cache, LruKey(make_cache_key(text), text))].result)

\* the text as the cache is documented to key it: lowercased and trimmed
Normalized(text) == Strip(LowerText(text))

\* the earlier calls that returned and had the same normalized text as p's
EarlierSame(p) ==
    {i \in 1..Len(history) :
        /\ history[i].ended = "done"
        /\ Normalized(history[i].text) = Normalized(req[p].text)}

\* a call served from a present entry returns it with cached = true and
\* makes no remote call
HitContract(p) ==
    /\ req[p].result = [StoredFor(req[p].text) EXCEPT !.cached = TRUE]
    /\ obs[p].remote = 0

\* a call that found no entry made `calls` remote calls, stored what it
\* returns, and returns it with cached = false
MissContract(p, calls) ==
    /\ obs[p].remote = calls
    /\ Present(req[p].text)
    /\ req[p].result.cached = FALSE
    /\ req[p].result = StoredFor(req[p].text)

C5_VariantsShareEntry ==
    \A p \in Procs :
        (Returned(p) /\ EarlierSame(p) # {}) =>
            req[p].result.cached = TRUE /\ obs[p].remote = 0

(* C6: when analyze_with_cache calls run concurrently, a call's response    *)
(* has cached = true if and only if that call was served from the cache     *)
(* and made no remote call.  Stated for the calls with non-blank text, the  *)
(* ones that reach the remote model on a miss.                              *)
C6_CachedIffServedFromCache ==
    \A p \in Procs :
        (Returned(p) /\ obs[p].lookup # "none" /\ ~IsBlank(req[p].text)) =>
            (req[p].result.cached = TRUE <=> (obs[p].lookup = "hit" /\ obs[p].remote = 0))

(* C8: calling analyze_with_cache twice with identical normalized text      *)
(* gives identical scores, sentiment, emotions and reasoning, and the       *)
(* second call reports cached = true.                                       *)
C8_SecondCallIdentical ==
    \A p \in Procs :
        Returned(p) =>
            \A i \in EarlierSame(p) :
                /\ req[p].result.scores = history[i].result.scores
                /\ req[p].result.sentiment = history[i].result.sentiment
                /\ req[p].result.emotions = history[i].result.emotions
                /\ req[p].result.reasoning = history[i].result.reasoning
                /\ req[p].result.cached = TRUE

----------------------------------------------------------------------------
(* Claims about the cache's eviction                                       *)

KeysOf(c) == {c[i].key : i \in 1..Len(c)}

\* the key of the text's entry
KeyOf(text) == LruKey(make_cache_key(text), text)

\* thread p's lookup is served from the cache in this step
HitStep(p) == pc[p] = "awc_lookup" /\ pc'[p] = "awc_after"

(* C7: the cache never holds more than 200 entries; an entry leaves it only *)
(* when it holds 200, one at a time, and the one that leaves is the entry   *)
(* whose last access (insertion or hit) is the oldest; a hit makes the      *)
(* entry it reads the most recently accessed one.                           *)
C7_StrictLru ==
    /\ Len(cache) <= MaxSize
    /\ [][ /\ Len(cache') <= MaxSize
           /\ Cardinality(KeysOf(cache) \ KeysOf(cache')) <= 1
           /\ \A i \in 1..Len(cache) :
                 cache[i].key \notin KeysOf(cache') =>
                     /\ Len(cache) = MaxSize
                     /\ \A j \in 1..Len(cache) : cache[i].used <= cache[j].used
           /\ \A p \in Procs :
                 HitStep(p) =>
                     LET i == CacheIndex(cache', MyKey(p))
                     IN  /\ i # 0
                         /\ KeysOf(cache') = KeysOf(cache)
                         /\ \A j \in 1..Len(cache) : cache[j].used < cache'[i].used
                         /\ \A j \in 1..Len(cache') : cache'[j].used <= cache'[i].used
         ]_vars

\* the full cache after a hit on its oldest entry and then a miss: the
\* oldest entry stayed, the second oldest left
C7_Witness ==
    /\ Len(cache) = MaxSize
    /\ hits = 1
    /\ KeyOf(FillerText(1)) \in KeysOf(cache)
    /\ KeyOf(FillerText(2)) \notin KeysOf(cache)
    /\ KeyOf(TxtLove) \in KeysOf(cache)

----------------------------------------------------------------------------
(* Claims about OpenAIAnalyzer.analyze                                     *)

\* thread p's remote call has come back and analyze() has returned req[p].fresh
AfterRemote(p) == pc[p] = "awc_store" /\ obs[p].remote = 1

\* the response of build_error_response, field by field
IsErrorResponse(r) ==
    /\ r.sentiment = "neutral"
    /\ r.scores = [positive |-> 250, negative |-> 250, neutral |-> 500, compound |-> 0]
    /\ r.confidence = 0
    /\ r.cached = FALSE
    /\ r.error # NoneVal

\* the JSON types the prompt asks for
ExpectedType ==
    [sentiment |-> "str", confidence |-> "num", compound_score |-> "num",
     emotions |-> "list", reasoning |-> "str"]

\* the reply is JSON with a value of another type than the prompt asks for
WronglyTyped(outcome) ==
    /\ outcome.kind = "json"
    /\ \/ outcome.json.type # "object"
       \/ \E f \in DOMAIN ExpectedType :
              outcome.json.val[f].type \notin {"absent", ExpectedType[f]}

\* the remote call failed or its reply is not JSON
CallFailed(outcome) == outcome.kind \in {"raise", "text"}

\* a value float() accepts
Convertible(v) ==
    \/ v.type \in {"absent", "num", "bool"}
    \/ v.type = "str" /\ v.val \in DOMAIN NumericStrings

\* the reply is JSON the code cannot convert: not an object, a sentiment
\* that is not a string, a compound_score or confidence float() rejects
Unconvertible(outcome) ==
    /\ outcome.kind = "json"
    /\ \/ outcome.json.type # "object"
       \/ outcome.json.val.sentiment.type \notin {"absent", "str"}
       \/ ~Convertible(outcome.json.val.compound_score)
       \/ ~Convertible(outcome.json.val.confidence)

(* C9, as claimed: for non-blank text, when the remote call fails or        *)
(* returns non-JSON or wrongly-typed content, analyze returns the           *)
(* build_error_response result: sentiment neutral, scores of compound 0.0,  *)
(* confidence 0.0, cached false, error set to the message.                  *)
C9_ErrorResponseAsClaimed ==
    \A p \in Procs :
        (AfterRemote(p) /\ (CallFailed(obs[p].outcome) \/ WronglyTyped(obs[p].outcome))) =>
            IsErrorResponse(req[p].fresh)

(* C9, amended: analyze returns the build_error_response result when the    *)
(* remote call fails, returns non-JSON content, or returns JSON the code    *)
(* cannot convert (not an object, a non-string sentiment, a compound_score  *)
(* or confidence that float() rejects); the message of a failed call is     *)
(* the error.  Any other reply, also one whose emotions is not a list,      *)
(* whose reasoning is not a string or whose confidence is a numeric string, *)
(* is answered with error = None.                                           *)
C9_ErrorResponse ==
    \A p \in Procs :
        AfterRemote(p) =>
            /\ req[p].fresh.text = req[p].text
            /\ req[p].fresh.model = MODEL_GPT
            /\ IF CallFailed(obs[p].outcome) \/ Unconvertible(obs[p].outcome)
               THEN /\ IsErrorResponse(req[p].fresh)
                    /\ obs[p].outcome.kind = "raise" => req[p].fresh.error = obs[p].outcome.msg
               ELSE req[p].fresh.error = NoneVal

\* a reply whose compound_score float() rejects was turned into the error response
C9_Witness ==
    \E p \in Procs :
        /\ AfterRemote(p)
        /\ obs[p].outcome = ReplyBadCompound
        /\ req[p].fresh.error # NoneVal
        /\ req[p].fresh.sentiment = "neutral"

(* C10: a Router call with model gpt-4o-mini while OPENAI_API_KEY is        *)
(* missing raises nothing and returns an error response: sentiment          *)
(* neutral, confidence 0.0, error populated.                                *)
C10_MissingKeyIsErrorResponse ==
    \A p \in Procs :
        (InRouter(p) /\ req[p].model = MODEL_GPT /\ ~Flagged(p) /\ ~apiKeySet) =>
            /\ pc[p] # "raised"
            /\ Returned(p) =>
                   /\ req[p].result.sentiment = "neutral"
                   /\ req[p].result.confidence = 0
                   /\ req[p].result.error # NoneVal

----------------------------------------------------------------------------
(* Claims about the Router's dispatch                                      *)

\* what a request for the default lexicon backend returns for the text
DefaultResponses(text) ==
    IF check_content(text).is_harmful
    THEN {AttachFlagged(HarmfulResponse(text, "vader"), check_content(text))}
    ELSE {AttachSafe(analyze_with_vader(text, v)) : v \in VaderOutputsFor(text)}

SelectedScorer(requested) ==
    CASE requested = "gpt-4o-mini" -> "remote"
      [] requested = "hybrid"      -> "blended"
      [] OTHER                     -> "lexicon"

(* C12: for a text the Moderation Filter does not flag the Router invokes   *)
(* exactly one scorer, the one the normalized model name selects, and the   *)
(* response it returns carries moderation = {flagged: false, reason: None,  *)
(* severity: "safe"}.                                                       *)
C12_OneScorerThenSafeModeration ==
    \A p \in Procs :
        (InRouter(p) /\ ~Flagged(p)) =>
            /\ obs[p].scorers \subseteq {SelectedScorer(req[p].requested)}
            /\ InRemotePath(p) => SelectedScorer(req[p].requested) = "remote"
            /\ pc[p] \in {"done", "raised"} =>
                   obs[p].scorers = {SelectedScorer(req[p].requested)}
            /\ Returned(p) =>
                   req[p].result.moderation =
                       [flagged |-> FALSE, reason |-> NoneVal, severity |-> "safe"]

\* a hybrid request on a safe text has returned from the blended scorer
C12_Witness ==
    \E p \in Procs :
        /\ InRouter(p) /\ Returned(p)
        /\ req[p].requested = "hybrid"
        /\ ~Flagged(p)
        /\ obs[p].scorers = {"blended"}
        /\ req[p].result.moderation.severity = "safe"

----------------------------------------------------------------------------
(* Claims about the Remote-Model Scorer's responses                        *)

\* the text is empty or whitespace only
WhitespaceOnly(text) == \A i \in 1..Len(text) : IsSpace(text[i])

\* the canned answer for blank text
IsEmptyTextAnswer(r) ==
    /\ r.sentiment = "neutral"
    /\ r.confidence = 0
    /\ r.reasoning = PyStr("Empty text provided.")
    /\ r.error = NoneVal

(* C13: empty or whitespace-only text given to the Remote-Model Scorer      *)
(* never reaches the remote call; the scorer returns sentiment neutral,     *)
(* confidence 0.0, reasoning "Empty text provided." and error None.         *)
C13_BlankNeverRemote ==
    \A p \in Procs :
        (pc[p] # "idle" /\ WhitespaceOnly(req[p].text)) =>
            /\ pc[p] # "remote"
            /\ obs[p].remote = 0
            /\ pc[p] = "awc_store" => IsEmptyTextAnswer(req[p].fresh)
            /\ Returned(p) => IsEmptyTextAnswer(req[p].result)

\* the scorer has answered a whitespace-only text on a cache miss
C13_Witness ==
    \E p \in Procs :
        /\ pc[p] = "awc_store"
        /\ req[p].text = TxtBlank
        /\ obs[p].lookup = "miss"
        /\ obs[p].remote = 0
        /\ req[p].fresh.reasoning = PyStr("Empty text provided.")

(* C14: every response the Router returns, whatever the model, the          *)
(* moderation verdict and the remote outcome, has the ten contract keys     *)
(* and moderation, and validate_response lists no violation for it.         *)
C14_ResponseMeetsContract ==
    \A p \in Procs :
        (InRouter(p) /\ Returned(p)) =>
            /\ {"text", "sentiment", "emoji", "scores", "confidence", "model",
                "emotions", "reasoning", "cached", "error", "moderation"}
                   \subseteq DOMAIN req[p].result
            /\ validate_response(req[p].result) = {}

(* C15: for every text, the empty one too, and every scorer, the blended    *)
(* scorer's fallback and the remote scorer's error and empty-text answers   *)
(* included, positive + negative + neutral is within 0.001 of 1.0.          *)
C15_ScoresSumToOne ==
    \A p \in Procs :
        (InRouter(p) /\ Returned(p) /\ ~Flagged(p)) =>
            LET sc == req[p].result.scores
            IN  /\ sc.positive + sc.negative + sc.neutral >= 999
                /\ sc.positive + sc.negative + sc.neutral <= 1001

(* C16: the confidence of every response lies in [0, 1], for every backend  *)
(* and every value the remote model reports as its confidence.              *)
C16_ConfidenceInUnitInterval ==
    \A p \in Procs :
        (InRouter(p) /\ Returned(p)) =>
            /\ req[p].result.confidence >= 0
            /\ req[p].result.confidence <= 1000

\* the remote model's reply is an object whose sentiment is a string other
\* than positive, negative, neutral in lower case
UnrequestedLabel(outcome) ==
    /\ outcome.kind = "json"
    /\ outcome.json.type = "object"
    /\ outcome.json.val.sentiment.type = "str"
    /\ outcome.json.val.sentiment.val \notin {"positive", "negative", "neutral"}

----------------------------------------------------------------------------
(* Claims about the Moderation Filter's samples                            *)

(* C18: "I want to hurt someone" is flagged by the Moderation Filter and    *)
(* the Router returns sentiment harmful for it, whatever model is asked.    *)
C18_HurtSomeoneIsHarmful ==
    \A p \in Procs :
        (InRouter(p) /\ Returned(p) /\ req[p].text = TxtHurtSomeone) =>
            /\ req[p].moderation.is_harmful
            /\ req[p].result.moderation.flagged
            /\ req[p].result.sentiment = "harmful"

\* the text with every substitute written as the letter it stands for
PlainSpelling(text) ==
    [i \in 1..Len(text) |->
        CASE text[i] = "*" -> "i"
          [] text[i] = "1" -> "i"
          [] text[i] = "@" -> "a"
          [] text[i] = "0" -> "o"
          [] OTHER         -> text[i]]

(* C19: check_content undoes the substitutions * -> i, 1 -> i, @ -> a,      *)
(* 0 -> o: a text with a letter of a harmful phrase written as its          *)
(* substitute is flagged exactly when its plain spelling is flagged.        *)
C19_CensoredFlaggedAsPlain ==
    \A p \in Procs :
        (InRouter(p) /\ req[p].text \in CensoredTexts) =>
            (req[p].moderation.is_harmful
                <=> check_content(PlainSpelling(req[p].text)).is_harmful)

(* C20: the model name "distilbert" is accepted and goes to the blended     *)
(* scorer: SentimentAnalyzer.analyze returns a response whose model is      *)
(* "hybrid", and the /analyze endpoint accepts the request (answers 200).   *)
C20_DistilbertIsHybrid ==
    \A p \in Procs :
        (InRouter(p) /\ Returned(p) /\ req[p].requested = "distilbert" /\ ~Flagged(p)) =>
            /\ obs[p].scorers = {"blended"}
            /\ req[p].result.model = "hybrid"
            /\ Len(req[p].text) >= 1 => SentimentRequestValid(req[p].text, req[p].requested)

----------------------------------------------------------------------------
(* Claims about derive_scores_from_compound                                 *)

(* C25: derive_scores_from_compound, for every input compound c (first      *)
(* clamped into [-1, 1]), returns positive = (0.5 + 0.5c) / T, negative =   *)
(* (0.5 - 0.5c) / T, neutral = (1 - |c|) / T with T = 2 - |c|, each rounded *)
(* to 3 decimals; T is never below 1, each of the three values lies in      *)
(* [0, 1], and compound is c rounded to 3 decimals.  (Thousandths: a value  *)
(* s is x / y rounded when |s * y - x| <= y / 2.)                           *)
C25_DerivedScores ==
    \A p \in Procs :
        (AfterRemote(p) /\ req[p].fresh.error = NoneVal) =>
            LET x == obs[p].outcome.json.val.compound_score.val
                c == IF x > 1000 THEN 1000 ELSE IF x < -1000 THEN -1000 ELSE x
                T == 2000 - Abs(c)
                s == req[p].fresh.scores
            IN  /\ T >= 1000
                /\ s.compound = c
                /\ {s.positive, s.negative, s.neutral} \subseteq 0..1000
                /\ Abs(s.positive * 2 * T - 1000 * (1000 + c)) <= T
                /\ Abs(s.negative * 2 * T - 1000 * (1000 - c)) <= T
                /\ 2 * Abs(s.neutral * T - 1000 * (1000 - Abs(c))) <= T

\* a compound score of 1.5 was clamped to 1: positive 1.0, nothing else
C25_Witness ==
    \E p \in Procs :
        /\ AfterRemote(p)
        /\ obs[p].outcome = ReplyCompound(1500)
        /\ req[p].fresh.scores = [positive |-> 1000, negative |-> 0, neutral |-> 0,
                                  compound |-> 1000]

----------------------------------------------------------------------------
(* Claims about the lexicon and the blended scorer                          *)

\* thread p's request went to the blended scorer, which has returned
BlendedReturned(p) == InRouter(p) /\ Returned(p) /\ obs[p].scorers = {"blended"}

\* the label of a score of c ten-thousandths by the thresholds 0.05 and -0.05
ThresholdLabel(c) ==
    IF c >= 500 THEN "positive" ELSE IF c <= -500 THEN "negative" ELSE "neutral"

\* r is c ten-thousandths rounded to three decimals, in thousandths
RoundedTo3(r, c) == 2 * Abs(10 * r - c) <= 10

(* C24: if the secondary polarity signal raises inside                      *)
(* HybridAnalyzer.analyze (the pattern step runs in the same try block), no *)
(* exception propagates: the result is the lexicon scorer's raw scores and  *)
(* threshold label alone, with model "vader-fallback", confidence 0.0 and   *)
(* the exception string in error.                                           *)
C24_FallbackOnFailure ==
    \A p \in Procs :
        /\ (InRouter(p) /\ "blended" \in obs[p].scorers) => pc[p] = "done"
        /\ (BlendedReturned(p) /\ ~obs[p].blob.ok) =>
              LET v == obs[p].vader
                  r == req[p].result
              IN  /\ r.model = "vader-fallback"
                  /\ r.confidence = 0
                  /\ r.error = obs[p].blob.msg
                  /\ r.sentiment = ThresholdLabel(v.compound)
                  /\ r.scores.positive = v.pos
                  /\ r.scores.negative = v.neg
                  /\ r.scores.neutral = v.neu
                  /\ RoundedTo3(r.scores.compound, v.compound)
                  /\ r.text = req[p].text

\* TextBlob raised on a text that matches a pattern, and the request was
\* answered with the lexicon's negative label under the fallback's name
C24_Witness ==
    \E p \in Procs :
        /\ BlendedReturned(p)
        /\ ~obs[p].blob.ok
        /\ req[p].text = TxtNotBad
        /\ req[p].result.model = "vader-fallback"
        /\ req[p].result.sentiment = "negative"
        /\ req[p].result.error = "MissingCorpusError"

\* the boosts of the patterns that match the text, read off the regexes of
\* pattern_boosts (thousandths)
ExpectedBoosts(text) ==
    CASE text = TxtNotBad      -> <<400>>
      [] text = TxtSlapsBussin -> <<500, 600>>
      [] text = TxtThanks      -> <<-700>>
      [] text = TxtOhGreat     -> <<-500>>
      [] text = TxtFineNotBad  -> <<400, -200>>
      [] text = TxtJustWhat    -> <<-400>>
      [] OTHER                 -> <<>>

RECURSIVE SeqSum(_)
SeqSum(s) == IF s = <<>> THEN 0 ELSE Head(s) + SeqSum(Tail(s))

\* v * 0.6 + t * 0.4 + boost for thread p's request, boost being the mean of
\* ExpectedBoosts, as a fraction CombinedNum / CombinedDen
CombinedDen(p) ==
    100000 * (IF ExpectedBoosts(req[p].text) = <<>> THEN 1 ELSE Len(ExpectedBoosts(req[p].text)))

CombinedNum(p) ==
    (CombinedDen(p) \div 100000) * (6 * obs[p].vader.compound + 40 * obs[p].blob.polarity)
        + 100 * SeqSum(ExpectedBoosts(req[p].text))

\* the same, clamped into [-1, 1]
ClampedNum(p) ==
    IF CombinedNum(p) > CombinedDen(p) THEN CombinedDen(p)
    ELSE IF CombinedNum(p) < -CombinedDen(p) THEN -CombinedDen(p)
    ELSE CombinedNum(p)

(* C26: the lexicon scorer (on compound) and the blended scorer (on         *)
(* combined) assign the label by the same thresholds for every score:       *)
(* positive iff score >= 0.05, negative iff score <= -0.05, neutral         *)
(* otherwise; the lexicon scorer's confidence is |compound| rounded to 3    *)
(* decimals.                                                                *)
C26_SameThresholds ==
    \A p \in Procs :
        /\ (InRouter(p) /\ Returned(p) /\ obs[p].scorers = {"lexicon"}) =>
              /\ req[p].result.sentiment = ThresholdLabel(obs[p].vader.compound)
              /\ req[p].result.confidence >= 0
              /\ RoundedTo3(req[p].result.confidence, Abs(obs[p].vader.compound))
        /\ (BlendedReturned(p) /\ obs[p].blob.ok) =>
              /\ req[p].result.sentiment = "positive"
                     <=> 100 * ClampedNum(p) >= 5 * CombinedDen(p)
              /\ req[p].result.sentiment = "negative"
                     <=> 100 * ClampedNum(p) <= -5 * CombinedDen(p)
              /\ req[p].result.sentiment \in {"positive", "negative", "neutral"}

\* the blended scorer labelled a combined score of exactly 0.05 positive
C26_Witness ==
    \E p \in Procs :
        /\ BlendedReturned(p)
        /\ obs[p].blob.ok
        /\ 100 * ClampedNum(p) = 5 * CombinedDen(p)
        /\ req[p].result.sentiment = "positive"

(* C27: in the blended scorer the applied pattern boost is 0 when no        *)
(* pattern matches and otherwise the arithmetic mean, not the sum, of the   *)
(* boosts of all matched patterns, and combined = v*0.6 + t*0.4 + boost     *)
(* clamped into [-1, 1], so scores.compound never leaves [-1, 1].           *)
C27_MeanBoostClamped ==
    \A p \in Procs :
        (BlendedReturned(p) /\ obs[p].blob.ok) =>
            /\ check_patterns(LowerText(req[p].text)) =
                   [sum     |-> SeqSum(ExpectedBoosts(req[p].text)),
                    matches |-> Len(ExpectedBoosts(req[p].text))]
            /\ req[p].result.scores.compound >= -1000
            /\ req[p].result.scores.compound <= 1000
            /\ 2 * Abs(req[p].result.scores.compound * CombinedDen(p) - 1000 * ClampedNum(p))
                   <= CombinedDen(p)

\* two patterns matched and the sum of their boosts alone is above 1: the
\* response has the compound of the mean, clamped to 1
C27_Witness ==
    \E p \in Procs :
        /\ BlendedReturned(p)
        /\ obs[p].blob.ok
        /\ req[p].text = TxtSlapsBussin
        /\ CombinedNum(p) > CombinedDen(p)
        /\ req[p].result.scores.compound = 1000

----------------------------------------------------------------------------
(* Claims about failed remote calls                                         *)

(* C23: no retries: a Remote-Model Scorer request makes at most one remote  *)
(* call, and when that call fails the request goes on with the error        *)
(* response for that failure, with no second attempt, and returns it.       *)
C23_NoRetry ==
    \A p \in Procs :
        /\ obs[p].remote <= 1
        /\ (obs[p].remote = 1 /\ CallFailed(obs[p].outcome)) =>
              /\ pc[p] \in {"awc_store", "awc_after", "done"}
              /\ IsErrorResponse(req[p].fresh)
              /\ obs[p].outcome.kind = "raise" => req[p].fresh.error = obs[p].outcome.msg
              /\ Returned(p) => /\ IsErrorResponse(req[p].result)
                                /\ req[p].result.error = req[p].fresh.error

\* a request whose one remote call failed has returned the error response
C23_Witness ==
    \E p \in Procs :
        /\ Returned(p)
        /\ obs[p].remote = 1
        /\ obs[p].outcome = RaiseTransport
        /\ req[p].result.error = RaiseTransport.msg

\* the earlier calls with the same text as p's that returned an error response
EarlierFailed(p) ==
    {i \in 1..Len(history) :
        /\ history[i].ended = "done"
        /\ history[i].text = req[p].text
        /\ history[i].result.error # NoneVal}

(* C29: the error response of a failed remote call is inserted into the     *)
(* cache like a successful result: until it is evicted, every later         *)
(* analyze_with_cache call with the same text returns that same error       *)
(* response with cached = true and makes no remote call.                    *)
C29_ErrorResponseCached ==
    \A p \in Procs :
        /\ (pc[p] \in {"awc_after", "done"} /\ obs[p].remote = 1 /\ CallFailed(obs[p].outcome)) =>
              /\ Present(req[p].text)
              /\ StoredFor(req[p].text) = req[p].fresh
              /\ IsErrorResponse(StoredFor(req[p].text))
        /\ (Returned(p) /\ Present(req[p].text)) =>
              \A i \in EarlierFailed(p) :
                  /\ req[p].result = [history[i].result EXCEPT !.cached = TRUE]
                  /\ obs[p].remote = 0
                  /\ obs[p].lookup = "hit"

\* a call was answered from the cache with the error response of the failed
\* remote call an earlier call with the same text had made
C29_Witness ==
    \E p \in Procs :
        /\ Returned(p)
        /\ EarlierFailed(p) # {}
        /\ obs[p].lookup = "hit"
        /\ req[p].result.cached = TRUE
        /\ req[p].result.error = RaiseTransport.msg

----------------------------------------------------------------------------
(* Claims about the endpoint /analyze                                       *)

\* the responses the endpoint /analyze has returned so far
Served ==
    {history[i].result : i \in {j \in 1..Len(history) : history[j].ended = "api_done"}}
        \cup {req[p].result : p \in {q \in Procs : pc[q] = "api_done"}}

(* C21: harmful content is never persisted: an /analyze request whose       *)
(* result has moderation.flagged = true inserts no row into                 *)
(* sentiment_analyses and answers saved_to_db = false, so saved_to_db =     *)
(* true implies moderation.flagged = false; the table holds exactly the     *)
(* rows of the requests answered with saved_to_db = true.                   *)
C21_HarmfulNeverPersisted ==
    /\ \A r \in Served :
         /\ r.moderation.flagged => ~r.saved_to_db
         /\ r.saved_to_db => ~r.moderation.flagged
         /\ r.saved_to_db <=> \E i \in 1..Len(db) : db[i].timestamp = r.timestamp
    /\ \A i \in 1..Len(db) :
         /\ ~db[i].flagged
         /\ \E r \in Served : r.timestamp = db[i].timestamp /\ r.text = db[i].text

\* a flagged request was answered, unsaved, by an endpoint whose database had
\* saved the safe request before it
C21_Witness ==
    \E p \in Procs :
        /\ pc[p] = "api_done"
        /\ req[p].result.moderation.flagged
        /\ ~req[p].result.saved_to_db
        /\ Len(db) = 1

\* the keys a caller adds to a response it was given
CallerKeys == {"moderation", "timestamp", "saved_to_db"}

\* the earlier requests for the text of p's request that the endpoint answered
\* from a remote call of their own
EarlierAnswered(p) ==
    {i \in 1..Len(history) :
        /\ history[i].ended = "api_done"
        /\ history[i].text = req[p].text
        /\ history[i].result.model = MODEL_GPT
        /\ history[i].result.cached = FALSE}

----------------------------------------------------------------------------
(* Claims about concurrent requests                                         *)

\* the threads whose request made a remote call for the fingerprint k
RemoteCallers(k) ==
    {p \in DOMAIN pc : obs[p].remote > 0 /\ make_cache_key(req[p].text) = k}

(* C22: for any number of concurrent requests with the same fingerprint     *)
(* that arrive while the fingerprint is not cached, the remote model is     *)
(* invoked at most twice for that fingerprint.                              *)
C22_AtMostTwicePerFingerprint ==
    \A p \in DOMAIN pc :
        Cardinality(RemoteCallers(make_cache_key(req[p].text))) <= 2

=============================================================================
